---- MODULE Spec2Model ----
(***************************************************************************)
(* The portfolio site's stateful components: the particle background       *)
(* (ParticlesBackground), the theme provider (ThemeProvider), the contact  *)
(* form (ContactSection) and the typewriter (TypewriterEffect).            *)
(*                                                                         *)
(* Particle background: the field of particles, the per-frame update and   *)
(* the drawing calls of animate(), the resize and mousemove listeners and  *)
(* the requestAnimationFrame loop that the component's effect sets up and  *)
(* its cleanup tears down.                                                 *)
(*                                                                         *)
(* Numbers.  The code computes in IEEE doubles.  The model computes on a   *)
(* fixed-point grid: a coordinate or a velocity is an integer number of    *)
(* 1/SCALE pixels, a factor (force, damping, opacity, Math.random()) an    *)
(* integer number of 1/SCALE, and every product and quotient is rounded to *)
(* the nearest grid value, ties to even, as IEEE arithmetic rounds.        *)
(*                                                                         *)
(* Spec is the particle component's whole life: mount, re-render, unmount, *)
(* resize, mousemove and frames.  SpecStep starts from an activated        *)
(* component with one particle in any state of a grid and runs frames,     *)
(* pointer moves and resizes from there.  SpecTheme is the theme provider  *)
(* over page loads and toggles, SpecForm the contact form over edits,      *)
(* submits, settled sends and timers, SpecTypewriter the typewriter over   *)
(* its timeouts; SpecFormLive and SpecTypewriterLive add that a timer that *)
(* was set fires.  SpecDraw starts from an activated component with three  *)
(* particles on a canvas wide enough for the fixed distances of animate()  *)
(* and runs frames, pointer moves and theme toggles; SpecTypewriterLife is *)
(* the typewriter up to and after its unmount.  Each specification holds   *)
(* the other components at rest.                                           *)
(*                                                                         *)
(* The variables last, calm, drawn, themeLast, formLast and typeLast       *)
(* belong to no code: they record what the latest step read, did and drew, *)
(* so that properties of a step can be read off the state it leaves.       *)
(***************************************************************************)
EXTENDS Integers, Sequences, FiniteSets, TLC

\* Grid resolution: values are held in units of 1/SCALE.
SCALE == 1000

----------------------------------------------------------------------------
(* Bounds of the model *)

\* animate() runs at most this many times in one behaviour.
MaxFrames == 3

\* toggleTheme runs at most this many times after one page load.
MaxToggles == 3

\* At most this many submissions pass validation in one behaviour.
MaxSubmits == 3

\* The words prop holds at most this many words.
MaxWords == 3

----------------------------------------------------------------------------
(* DEFAULT_CONFIG and the literals of animate(), in grid units *)

VELOCITY_MIN == -600
VELOCITY_MAX == 600
PARTICLE_SIZE_MIN == 1200
PARTICLE_SIZE_MAX == 3700
VELOCITY_DAMPING == 995
BOUNCE_ENERGY_LOSS == 800
\* vx: vx * 2
VELOCITY_MULTIPLIER == 2
\* particle.vx -= dx * force * 0.001
VELOCITY_NUDGE == 1
CONNECTION_DISTANCE == 100000
MOUSE_CONNECTION_MIN == 50000
MOUSE_CONNECTION_MAX == 120000
\* const baseOpacity = 0.4
BASE_OPACITY == 400
\* (repellingRadius - distance) / repellingRadius * 0.4
PROXIMITY_BOOST == 400
\* if (distance < 80)
GLOW_DISTANCE == 80000
\* ctx.globalAlpha = 0.2
GLOW_OPACITY == 200
\* particle.size * 1.8
GLOW_SIZE == 1800
\* ctx.globalAlpha = connectionOpacity * 0.3
CONNECTION_OPACITY == 300
\* (maxThreshold - distance) / maxThreshold * 0.3
MOUSE_CONNECTION_OPACITY == 300

----------------------------------------------------------------------------
(* Arithmetic *)

Abs(a) == IF a < 0 THEN -a ELSE a

\* n / d for d > 0, rounded to the nearest integer, ties to even.
RoundDiv(n, d) ==
  LET q == n \div d
      r == n % d
  IN  IF 2 * r < d THEN q
      ELSE IF 2 * r > d THEN q + 1
      ELSE IF q % 2 = 0 THEN q ELSE q + 1

\* a * b of two grid values.
Mul(a, b) == RoundDiv(a * b, SCALE)

\* a / b of two grid values, b > 0.
Div(a, b) == RoundDiv(a * SCALE, b)

RECURSIVE SqrtSearch(_, _, _)
\* The largest r in lo..hi with r * r <= n.
SqrtSearch(n, lo, hi) ==
  IF lo >= hi THEN lo
  ELSE LET mid == (lo + hi + 1) \div 2
       IN  IF mid * mid <= n THEN SqrtSearch(n, mid, hi)
           ELSE SqrtSearch(n, lo, mid - 1)

\* Math.sqrt(n), n >= 0 the exact sum of two squares of grid values: the
\* nearest grid value to the root.
Sqrt(n) ==
  LET r == SqrtSearch(n, 0, 46340)
  IN  IF n - r * r > r THEN r + 1 ELSE r

\* Sums of squares too large for the integers TLC computes with are held
\* as hi * 10^6 + lo with 0 <= lo < 10^6.
Wide(hi, lo) == [hi |-> hi + lo \div 1000000, lo |-> lo % 1000000]

\* a * b for 0 <= a, b < 10^6, from the products of their halves.
WideProduct(a, b) ==
  LET a1 == a \div 1000
      a0 == a % 1000
      b1 == b \div 1000
      b0 == b % 1000
      mid == a1 * b0 + a0 * b1
  IN  Wide(a1 * b1 + mid \div 1000, (mid % 1000) * 1000 + a0 * b0)

WideSum(u, v) == Wide(u.hi + v.hi, u.lo + v.lo)

WideLess(u, v) == u.hi < v.hi \/ (u.hi = v.hi /\ u.lo < v.lo)

RECURSIVE WideSqrtSearch(_, _, _)
\* The largest r in lo..hi with r = 0 or r * (r - 1) < n: the nearest
\* integer to the root of n.
WideSqrtSearch(n, lo, hi) ==
  IF lo >= hi THEN lo
  ELSE LET mid == (lo + hi + 1) \div 2
       IN  IF WideLess(WideProduct(mid, mid - 1), n)
           THEN WideSqrtSearch(n, mid, hi)
           ELSE WideSqrtSearch(n, lo, mid - 1)

\* Math.sqrt(dx * dx + dy * dy) for 0 <= dx, dy < 10^6 / 2: the nearest
\* grid value to the root, as Sqrt gives it.
WideSqrt(dx, dy) ==
  WideSqrtSearch(WideSum(WideProduct(dx, dx), WideProduct(dy, dy)), 0, dx + dy)

\* Math.floor((canvas.width * canvas.height) / particleDensity), in whole
\* pixels and a whole divisor.
ParticleCount(w, h, density) == (w * h) \div density

----------------------------------------------------------------------------
(* The per-particle update of animate() *)

\* particle.x += particle.vx; particle.y += particle.vy
Advance(p) == [p EXCEPT !.x = p.x + p.vx, !.y = p.y + p.vy]

\* Collide with the strict tests (x < 0, x > canvas.width, ...) in place of
\* <= and >=.
CollideStrict(p, w, h) ==
  LET p1 == IF p.x < 0
            THEN [p EXCEPT !.x = 0, !.vx = Mul(Abs(p.vx), BOUNCE_ENERGY_LOSS)]
            ELSE p
      p2 == IF p1.x > w
            THEN [p1 EXCEPT !.x = w, !.vx = Mul(-Abs(p1.vx), BOUNCE_ENERGY_LOSS)]
            ELSE p1
      p3 == IF p2.y < 0
            THEN [p2 EXCEPT !.y = 0, !.vy = Mul(Abs(p2.vy), BOUNCE_ENERGY_LOSS)]
            ELSE p2
      p4 == IF p3.y > h
            THEN [p3 EXCEPT !.y = h, !.vy = Mul(-Abs(p3.vy), BOUNCE_ENERGY_LOSS)]
            ELSE p3
  IN  p4

\* The four edge tests, in the order of the code; w and h in grid units.
Collide(p, w, h) ==
  LET p1 == IF p.x <= 0
            THEN [p EXCEPT !.x = 0, !.vx = Mul(Abs(p.vx), BOUNCE_ENERGY_LOSS)]
            ELSE p
      p2 == IF p1.x >= w
            THEN [p1 EXCEPT !.x = w, !.vx = Mul(-Abs(p1.vx), BOUNCE_ENERGY_LOSS)]
            ELSE p1
      p3 == IF p2.y <= 0
            THEN [p2 EXCEPT !.y = 0, !.vy = Mul(Abs(p2.vy), BOUNCE_ENERGY_LOSS)]
            ELSE p2
      p4 == IF p3.y >= h
            THEN [p3 EXCEPT !.y = h, !.vy = Mul(-Abs(p3.vy), BOUNCE_ENERGY_LOSS)]
            ELSE p3
  IN  p4

\* Math.sqrt(dx * dx + dy * dy) with dx = mouse.x - particle.x
Distance(p, m) ==
  LET dx == m.x - p.x
      dy == m.y - p.y
  IN  IF Abs(dx) < 32768 /\ Abs(dy) < 32768
      THEN Sqrt(dx * dx + dy * dy)
      ELSE WideSqrt(Abs(dx), Abs(dy))

\* Repel without the test distance < repellingRadius.
RepelNoCutoff(p, m, props) ==
  LET dx == m.x - p.x
      dy == m.y - p.y
      distance == Distance(p, m)
      force == Div(props.repellingRadius - distance, props.repellingRadius)
  IN  [p EXCEPT !.x = p.x - Mul(Mul(dx, force), props.repellingStrength),
                !.y = p.y - Mul(Mul(dy, force), props.repellingStrength),
                !.vx = p.vx - Mul(Mul(dx, force), VELOCITY_NUDGE),
                !.vy = p.vy - Mul(Mul(dy, force), VELOCITY_NUDGE)]

\* Repel with the force taken as distance / repellingRadius: growing with
\* the distance instead of falling.
RepelRisingForce(p, m, props) ==
  LET dx == m.x - p.x
      dy == m.y - p.y
      distance == Distance(p, m)
  IN  IF distance < props.repellingRadius
      THEN LET force == Div(distance, props.repellingRadius)
           IN  [p EXCEPT !.x = p.x - Mul(Mul(dx, force), props.repellingStrength),
                         !.y = p.y - Mul(Mul(dy, force), props.repellingStrength),
                         !.vx = p.vx - Mul(Mul(dx, force), VELOCITY_NUDGE),
                         !.vy = p.vy - Mul(Mul(dy, force), VELOCITY_NUDGE)]
      ELSE p

\* if (distance < repellingRadius) { ... }
Repel(p, m, props) ==
  LET dx == m.x - p.x
      dy == m.y - p.y
      distance == Distance(p, m)
  IN  IF distance < props.repellingRadius
      THEN LET force == Div(props.repellingRadius - distance, props.repellingRadius)
           IN  [p EXCEPT !.x = p.x - Mul(Mul(dx, force), props.repellingStrength),
                         !.y = p.y - Mul(Mul(dy, force), props.repellingStrength),
                         !.vx = p.vx - Mul(Mul(dx, force), VELOCITY_NUDGE),
                         !.vy = p.vy - Mul(Mul(dy, force), VELOCITY_NUDGE)]
      ELSE p

\* Damp without the damping.
DampNone(p) == p

\* particle.vx *= VELOCITY_DAMPING; particle.vy *= VELOCITY_DAMPING
Damp(p) == [p EXCEPT !.vx = Mul(p.vx, VELOCITY_DAMPING),
                     !.vy = Mul(p.vy, VELOCITY_DAMPING)]

\* UpdateParticle with the damping done first, before the advance.
UpdateParticleDampFirst(p, m, w, h, props) ==
  Repel(Collide(Advance(Damp(p)), w, h), m, props)

\* One particle's pass through the body of particles.forEach.
UpdateParticle(p, m, w, h, props) ==
  Damp(Repel(Collide(Advance(p), w, h), m, props))

\* UpdateAll with a pull on each particle's velocity toward the particle
\* after it in the array.
UpdateAllCoupled(ps, m, w, h, props) ==
  [i \in 1..Len(ps) |->
     LET q == UpdateParticle(ps[i], m, w * SCALE, h * SCALE, props)
     IN  IF i < Len(ps)
         THEN [q EXCEPT !.vx = q.vx + Mul(ps[i + 1].x - ps[i].x, VELOCITY_NUDGE)]
         ELSE q]

\* The particle array after one animate(): no particle reads another.
UpdateAll(ps, m, w, h, props) ==
  [i \in 1..Len(ps) |-> UpdateParticle(ps[i], m, w * SCALE, h * SCALE, props)]

----------------------------------------------------------------------------
(* The calls animate() makes on the canvas context and the host, in order *)

\* The distance line 177 computes for particle p: after its advance and
\* edge steps, before the repulsion.
PointerDistance(p, m, w, h) == Distance(Collide(Advance(p), w * SCALE, h * SCALE), m)

\* ctx.arc of particle i, as updated to q, under globalAlpha = finalOpacity.
Circle(i, q, distance, props, dark) ==
  LET R == props.repellingRadius
      proximityBoost == IF distance < R
                        THEN Mul(Div(R - distance, R), PROXIMITY_BOOST)
                        ELSE 0
  IN  [op |-> "circle", i |-> i, x |-> q.x, y |-> q.y, r |-> q.size,
       alpha |-> BASE_OPACITY + proximityBoost, dark |-> dark]

\* The glow circle of particle i, if it is drawn.
Glow(i, q, distance, dark) ==
  IF distance < GLOW_DISTANCE
  THEN << [op |-> "glow", i |-> i, x |-> q.x, y |-> q.y,
           r |-> Mul(q.size, GLOW_SIZE), alpha |-> GLOW_OPACITY, dark |-> dark] >>
  ELSE << >>

\* Connections with particles.forEach in place of particles.slice(i + 1)
\* .forEach: a line from particle i to every other particle within
\* connectionDistance.
ConnectionsAll(i, arr, m, w, h, props, dark) ==
  LET line(j) ==
        LET connectionDist == Distance(arr[j], arr[i])
        IN  [op |-> "line", i |-> i, j |-> j, x1 |-> arr[i].x, y1 |-> arr[i].y,
             x2 |-> arr[j].x, y2 |-> arr[j].y, dist |-> connectionDist,
             alpha |-> Mul(Div(props.connectionDistance - connectionDist,
                               props.connectionDistance), CONNECTION_OPACITY),
             dark |-> dark]
  IN  SelectSeq([k \in 1..Len(arr) |-> line(k)],
                LAMBDA l : l.j # i /\ l.dist < props.connectionDistance)

\* particles.slice(i + 1).forEach(...): the lines from particle i, already
\* updated in arr, to each later particle of arr within connectionDistance.
Connections(i, arr, m, w, h, props, dark) ==
  LET line(j) ==
        LET connectionDist == Distance(arr[j], arr[i])
        IN  [op |-> "line", i |-> i, j |-> j, x1 |-> arr[i].x, y1 |-> arr[i].y,
             x2 |-> arr[j].x, y2 |-> arr[j].y, dist |-> connectionDist,
             alpha |-> Mul(Div(props.connectionDistance - connectionDist,
                               props.connectionDistance), CONNECTION_OPACITY),
             dark |-> dark]
  IN  SelectSeq([k \in 1..(Len(arr) - i) |-> line(i + k)],
                LAMBDA l : l.dist < props.connectionDistance)

\* MouseConnection without the inner threshold.
MouseConnectionFromZero(i, q, m, distance, dark) ==
  IF distance < MOUSE_CONNECTION_MAX
  THEN << [op |-> "mouseline", i |-> i, x1 |-> m.x, y1 |-> m.y,
           x2 |-> q.x, y2 |-> q.y,
           alpha |-> Mul(Div(MOUSE_CONNECTION_MAX - distance, MOUSE_CONNECTION_MAX),
                         MOUSE_CONNECTION_OPACITY),
           dark |-> dark] >>
  ELSE << >>

\* The line from the pointer to particle i, if it is drawn.
MouseConnection(i, q, m, distance, dark) ==
  IF distance < MOUSE_CONNECTION_MAX /\ distance > MOUSE_CONNECTION_MIN
  THEN << [op |-> "mouseline", i |-> i, x1 |-> m.x, y1 |-> m.y,
           x2 |-> q.x, y2 |-> q.y,
           alpha |-> Mul(Div(MOUSE_CONNECTION_MAX - distance, MOUSE_CONNECTION_MAX),
                         MOUSE_CONNECTION_OPACITY),
           dark |-> dark] >>
  ELSE << >>

RECURSIVE ForEach(_, _, _, _, _, _, _)
\* particles.forEach from index i on, over the array arr whose elements
\* before i are updated already: the callback updates arr[i] in place and
\* draws from the array as it then is.
ForEach(i, arr, m, w, h, props, dark) ==
  IF i > Len(arr) THEN << >>
  ELSE LET distance == PointerDistance(arr[i], m, w, h)
           q == UpdateParticle(arr[i], m, w * SCALE, h * SCALE, props)
           now == [arr EXCEPT ![i] = q]
       IN  <<Circle(i, q, distance, props, dark)>>
             \o Glow(i, q, distance, dark)
             \o Connections(i, now, m, w, h, props, dark)
             \o MouseConnection(i, q, m, distance, dark)
             \o ForEach(i + 1, now, m, w, h, props, dark)

\* Animate with requestAnimationFrame(animate) as its first statement.
AnimateRequestFirst(ps, m, w, h, props, dark) ==
  << [op |-> "requestAnimationFrame"],
     [op |-> "clearRect", w |-> w * SCALE, h |-> h * SCALE] >>
    \o ForEach(1, ps, m, w, h, props, dark)

\* The calls of one animate() over the array ps.
Animate(ps, m, w, h, props, dark) ==
  << [op |-> "clearRect", w |-> w * SCALE, h |-> h * SCALE] >>
    \o ForEach(1, ps, m, w, h, props, dark)
    \o << [op |-> "requestAnimationFrame"] >>

\* The sum of squared velocity components over all particles.
RECURSIVE Energy(_)
Energy(ps) ==
  IF ps = << >> THEN 0
  ELSE Head(ps).vx * Head(ps).vx + Head(ps).vy * Head(ps).vy + Energy(Tail(ps))

----------------------------------------------------------------------------
(* Inputs the model draws from *)

\* window.innerWidth and window.innerHeight, in pixels.
WindowSizes == { [w |-> 0, h |-> 0], [w |-> 4, h |-> 4], [w |-> 6, h |-> 4] }

\* The props an effect run closes over.  colors is "default" when the
\* caller passes no colors prop, as <ParticlesBackground /> in HeroSection
\* does, and the name of the caller's object otherwise.
PropsSet ==
  { [particleDensity |-> 12, repellingRadius |-> 3000, repellingStrength |-> 20,
     connectionDistance |-> 3500, colors |-> "default"],
    [particleDensity |-> 24, repellingRadius |-> 2000, repellingStrength |-> 500,
     connectionDistance |-> CONNECTION_DISTANCE, colors |-> "default"] }

\* clientX and clientY of a mousemove event, in grid units.
Pointers == { [x |-> 1000, y |-> 2000], [x |-> 6000, y |-> 4000] }

\* Values of Math.random(), in [0, 1), as createParticles draws them for
\* one particle: <<for vx, for vy, for x, for y, for size>>.
Draws == { <<0, 750, 0, 500, 500>>, <<750, 750, 500, 500, 500>> }

\* useRef({ x: 0, y: 0 })
Origin == [x |-> 0, y |-> 0]

----------------------------------------------------------------------------
(* createParticles *)

\* NewParticle with the velocity range not shifted to start at its minimum.
NewParticleUnshifted(rvx, rvy, rx, ry, rs, w, h) ==
  LET vx == Mul(rvx, VELOCITY_MAX - VELOCITY_MIN)
      vy == Mul(rvy, VELOCITY_MAX - VELOCITY_MIN)
  IN  [x |-> Mul(rx, w * SCALE),
       y |-> Mul(ry, h * SCALE),
       vx |-> vx * VELOCITY_MULTIPLIER,
       vy |-> vy * VELOCITY_MULTIPLIER,
       size |-> PARTICLE_SIZE_MIN + Mul(rs, PARTICLE_SIZE_MAX - PARTICLE_SIZE_MIN)]

\* One pushed particle, from the five values of Math.random() it draws.
\* baseVx and baseVy are written here and never read; the model leaves
\* them out.
NewParticle(rvx, rvy, rx, ry, rs, w, h) ==
  LET vx == VELOCITY_MIN + Mul(rvx, VELOCITY_MAX - VELOCITY_MIN)
      vy == VELOCITY_MIN + Mul(rvy, VELOCITY_MAX - VELOCITY_MIN)
  IN  [x |-> Mul(rx, w * SCALE),
       y |-> Mul(ry, h * SCALE),
       vx |-> vx * VELOCITY_MULTIPLIER,
       vy |-> vy * VELOCITY_MULTIPLIER,
       size |-> PARTICLE_SIZE_MIN + Mul(rs, PARTICLE_SIZE_MAX - PARTICLE_SIZE_MIN)]

NewParticles(w, h) ==
  { NewParticle(d[1], d[2], d[3], d[4], d[5], w, h) : d \in Draws }

\* CreateParticles without particles.length = 0.
CreateParticlesNoClear(old, w, h, p) ==
  { old \o pushed :
      pushed \in [1..ParticleCount(w, h, p.particleDensity) -> NewParticles(w, h)] }

\* The arrays createParticles can leave of the array old: particles.length
\* = 0, then particleCount pushes.
CreateParticles(old, w, h, p) ==
  LET cleared == SubSeq(old, 1, 0)
  IN  { cleared \o pushed :
          pushed \in [1..ParticleCount(w, h, p.particleDensity) -> NewParticles(w, h)] }

----------------------------------------------------------------------------
(* State *)

VARIABLES
  mounted,          \* a component instance exists
  active,           \* the effect ran to its end and its cleanup is owed
  win,              \* window.innerWidth, window.innerHeight (pixels)
  canvasW,          \* canvas.width (pixels)
  canvasH,          \* canvas.height (pixels)
  props,            \* the props of the latest render
  particles,        \* particlesRef.current
  mouse,            \* mouseRef.current
  resizeListeners,  \* resizeCanvas closures registered on window
  moveListeners,    \* handleMouseMove closures registered on window
  pending,          \* frame requests not yet run or cancelled
  animationRef,     \* animationRef.current; 0 stands for undefined
  frames,           \* calls of animate() so far; the last handle handed out
  last,             \* what the latest step did, and what animate() read
  calm,             \* the energy after createParticles and after each frame
                    \* since, while no frame has repelled a particle
  drawn             \* the calls the latest animate() made, in order

\* ThemeProvider
VARIABLES
  isDark,           \* the isDark state of the latest render
  rootDark,         \* document.documentElement carries the class 'dark'
  storedTheme,      \* localStorage 'theme'; "" stands for no entry
  systemDark,       \* matchMedia('(prefers-color-scheme: dark)').matches
  themeEffectDue,   \* a render changed isDark and its effect has not run yet
  themeLast         \* what the initializer read, and the toggles since

\* ContactSection
VARIABLES
  formData,         \* name, email and message, each a sequence of characters
  formStatus,       \* FORM_STATES
  errors,           \* the errors state: a message per field, "" for none
  emailConfig,      \* the three VITE_EMAILJS_ variables are all set
  inFlight,         \* calls of emailjs.send not yet settled
  dismissTimers,    \* pending auto-dismiss timers, oldest first
  submits,          \* submissions that passed validation so far
  formLast          \* what the latest step did, and the state it found

\* TypewriterEffect
VARIABLES
  words,            \* the words prop
  currentWordIndex,
  currentText,
  isDeleting,
  showCursor,
  animationTimeout, \* the timeout of the latest effect run is pending
  pauseTimers,      \* pending timeouts of the pause after a word
  typeMounted,      \* the component instance exists
  typeLast          \* what the latest step did, and the state it found

particleVars == <<mounted, active, win, canvasW, canvasH, props, particles,
                  mouse, resizeListeners, moveListeners, pending, animationRef,
                  frames, last, calm, drawn>>
themeVars == <<isDark, rootDark, storedTheme, systemDark, themeEffectDue, themeLast>>
formVars == <<formData, formStatus, errors, emailConfig, inFlight, dismissTimers,
              submits, formLast>>
typeVars == <<words, currentWordIndex, currentText, isDeleting, showCursor,
              animationTimeout, pauseTimers, typeMounted, typeLast>>

vars == <<particleVars, themeVars, formVars, typeVars>>

\* Some particle is inside the repelling radius when animate() tests it.
Repelled(ps, m, w, h, pr) ==
  \E i \in 1..Len(ps) :
    Distance(Collide(Advance(ps[i]), w * SCALE, h * SCALE), m) < pr.repellingRadius

\* The record of a step that did not run animate().
Quiet(op) ==
  [op |-> op, ran |-> FALSE, prior |-> 0, before |-> << >>, mouse |-> Origin,
   w |-> 0, h |-> 0]

\* The record of a step that ran animate(): on the array ps, with pointer m
\* and a canvas of w by h pixels; the array held n particles when the step
\* began.
Ran(op, n, ps, m, w, h) ==
  [op |-> op, ran |-> TRUE, prior |-> n, before |-> ps, mouse |-> m,
   w |-> w, h |-> h]

\* const INITIAL_FORM_DATA = { name: '', email: '', message: '' }
INITIAL_FORM_DATA == [name |-> << >>, email |-> << >>, message |-> << >>]

\* useState({}): no field has an error message.
NoErrors == [name |-> "", email |-> "", message |-> ""]

\* The theme provider after a load that found 'light' saved, its effect run.
ThemeAtRest ==
  /\ isDark = FALSE
  /\ rootDark = FALSE
  /\ storedTheme = "light"
  /\ systemDark = FALSE
  /\ themeEffectDue = FALSE
  /\ themeLast = [saved |-> "light", system |-> FALSE, toggles |-> 0]

\* The contact form as rendered first, untouched.
FormAtRest ==
  /\ formData = INITIAL_FORM_DATA
  /\ formStatus = "idle"
  /\ errors = NoErrors
  /\ emailConfig = TRUE
  /\ inFlight = {}
  /\ dismissTimers = << >>
  /\ submits = 0
  /\ formLast = [op |-> "init", status |-> "idle", of |-> 0]

\* The typewriter with words = []: its effect returns at once.
TypewriterAtRest ==
  /\ words = << >>
  /\ currentWordIndex = 0
  /\ currentText = << >>
  /\ isDeleting = FALSE
  /\ showCursor = TRUE
  /\ animationTimeout = FALSE
  /\ pauseTimers = 0
  /\ typeMounted = TRUE
  /\ typeLast = [op |-> "init", index |-> 0, text |-> << >>, deleting |-> FALSE]

\* The particle component not mounted.
ParticlesAtRest ==
  /\ mounted = FALSE
  /\ active = FALSE
  /\ win = [w |-> 0, h |-> 0]
  /\ canvasW = 0
  /\ canvasH = 0
  /\ props = CHOOSE pr \in PropsSet : TRUE
  /\ particles = << >>
  /\ mouse = Origin
  /\ resizeListeners = 0
  /\ moveListeners = 0
  /\ pending = {}
  /\ animationRef = 0
  /\ frames = 0
  /\ last = Quiet("init")
  /\ calm = [ok |-> TRUE, e |-> << >>]
  /\ drawn = << >>

Init ==
  /\ ThemeAtRest /\ FormAtRest /\ TypewriterAtRest
  /\ drawn = << >>
  /\ mounted = FALSE
  /\ active = FALSE
  /\ win \in WindowSizes
  /\ canvasW = 0
  /\ canvasH = 0
  /\ props \in PropsSet
  /\ particles = << >>
  /\ mouse = Origin
  /\ resizeListeners = 0
  /\ moveListeners = 0
  /\ pending = {}
  /\ animationRef = 0
  /\ frames = 0
  /\ last = Quiet("init")
  /\ calm = [ok |-> TRUE, e |-> << >>]

----------------------------------------------------------------------------
(* The effect and its cleanup *)

\* A cleanup without removeEventListener('resize', resizeCanvas).
AfterCleanupResizeKept == resizeListeners

\* A cleanup without cancelAnimationFrame.
AfterCleanupPendingKept == pending

\* What the cleanup leaves registered: it exists only if the effect ran to
\* its end.
AfterCleanupResize == IF active THEN resizeListeners - 1 ELSE resizeListeners
AfterCleanupMove == IF active THEN moveListeners - 1 ELSE moveListeners
\* if (animationRef.current) cancelAnimationFrame(animationRef.current)
AfterCleanupPending ==
  IF active /\ animationRef # 0
  THEN { f \in pending : f.id # animationRef }
  ELSE pending

\* requestAnimationFrame(animate) by the effect run that closed over pr.
Request(pend, pr) == pend \cup { [id |-> frames + 1, props |-> pr] }

\* An early return placed after the two addEventListener calls.
EarlyReturnRegistered(op, old, ref, rl, ml, pend) ==
  /\ active' = FALSE
  /\ particles' = old
  /\ resizeListeners' = rl + 1
  /\ moveListeners' = ml + 1
  /\ pending' = pend
  /\ animationRef' = ref
  /\ last' = Quiet(op)
  /\ UNCHANGED <<canvasW, canvasH, frames, calm, drawn>>

\* if (!canvas) { console.warn(...); return; }
EarlyReturn(op, old, ref, rl, ml, pend) ==
  /\ active' = FALSE
  /\ particles' = old
  /\ resizeListeners' = rl
  /\ moveListeners' = ml
  /\ pending' = pend
  /\ animationRef' = ref
  /\ last' = Quiet(op)
  /\ UNCHANGED <<canvasW, canvasH, frames, calm, drawn>>

\* The effect past its guard: resizeCanvas, createParticles, the two
\* addEventListener calls and the first animate().
SetUp(op, pr, old, m, rl, ml, pend) ==
  /\ frames < MaxFrames
  /\ \E ps \in CreateParticles(old, win.w, win.h, pr) :
       /\ particles' = UpdateAll(ps, m, win.w, win.h, pr)
       /\ drawn' = Animate(ps, m, win.w, win.h, pr, rootDark)
       /\ last' = Ran(op, Len(old), ps, m, win.w, win.h)
       /\ calm' = IF Repelled(ps, m, win.w, win.h, pr)
                  THEN [ok |-> FALSE, e |-> << >>]
                  ELSE [ok |-> TRUE, e |-> <<Energy(ps), Energy(particles')>>]
  /\ active' = TRUE
  /\ canvasW' = win.w
  /\ canvasH' = win.h
  /\ resizeListeners' = rl + 1
  /\ moveListeners' = ml + 1
  /\ pending' = Request(pend, pr)
  /\ animationRef' = frames + 1
  /\ frames' = frames + 1

\* The body of the effect, run with the canvas present (c) or not, under
\* props pr, with pointer m and window listeners and frame requests as
\* given.
Effect(op, c, pr, old, m, ref, rl, ml, pend) ==
  /\ props' = pr
  /\ mouse' = m
  /\ win' = win
  /\ mounted' = TRUE
  /\ UNCHANGED <<themeVars, formVars, typeVars>>
  /\ IF ~c
     THEN EarlyReturn(op, old, ref, rl, ml, pend)
     ELSE SetUp(op, pr, old, m, rl, ml, pend)

\* The component mounts: fresh refs, then the effect.
Mount(c, pr) ==
  /\ ~mounted
  /\ Effect("mount", c, pr, << >>, Origin, 0,
            resizeListeners, moveListeners, pending)

\* React's comparison of the dependency array of a render under props next
\* with that of the previous render under props prev, by Object.is: the
\* numbers compare by value; particleSize and velocity default to the same
\* objects of DEFAULT_CONFIG in every render; a colors left to its default
\* is the object literal of the parameter list, a new object in every
\* render, and so never the object of the render before.
DepsChanged(prev, next) ==
  ~ /\ next.particleDensity = prev.particleDensity
    /\ next.repellingRadius = prev.repellingRadius
    /\ next.repellingStrength = prev.repellingStrength
    /\ next.connectionDistance = prev.connectionDistance
    /\ next.colors # "default"
    /\ next.colors = prev.colors

\* Rerender with a mouseRef that the effect run resets.
RerenderResetsPointer(c, pr) ==
  /\ mounted
  /\ DepsChanged(props, pr)
  /\ Effect("rerender", c, pr, particles, Origin, animationRef,
            AfterCleanupResize, AfterCleanupMove, AfterCleanupPending)

\* A render whose dependency array differs from the previous render's: the
\* cleanup of the previous effect run, then the effect again.
Rerender(c, pr) ==
  /\ mounted
  /\ DepsChanged(props, pr)
  /\ Effect("rerender", c, pr, particles, mouse, animationRef,
            AfterCleanupResize, AfterCleanupMove, AfterCleanupPending)

\* The component unmounts: the cleanup, and the instance's refs are gone.
Unmount ==
  /\ mounted
  /\ mounted' = FALSE
  /\ active' = FALSE
  /\ resizeListeners' = AfterCleanupResize
  /\ moveListeners' = AfterCleanupMove
  /\ pending' = AfterCleanupPending
  /\ particles' = << >>
  /\ mouse' = Origin
  /\ animationRef' = 0
  /\ last' = Quiet("unmount")
  /\ calm' = [ok |-> TRUE, e |-> << >>]
  /\ drawn' = << >>
  /\ UNCHANGED <<win, canvasW, canvasH, props, frames>>
  /\ UNCHANGED <<themeVars, formVars, typeVars>>

----------------------------------------------------------------------------
(* Events *)

\* The window takes size sz and dispatches resize: every registered
\* resizeCanvas copies the window size to the canvas.
Resize(sz) ==
  /\ sz # win
  /\ win' = sz
  /\ IF resizeListeners > 0
     THEN canvasW' = sz.w /\ canvasH' = sz.h
     ELSE UNCHANGED <<canvasW, canvasH>>
  /\ last' = Quiet("resize")
  /\ UNCHANGED <<mounted, active, props, particles, mouse, resizeListeners,
                 moveListeners, pending, animationRef, frames, calm, drawn>>
  /\ UNCHANGED <<themeVars, formVars, typeVars>>

\* MouseMove with a handler that does not store the coordinate.
MouseMoveDropped(pt) ==
  /\ moveListeners > 0
  /\ mouse' = mouse
  /\ last' = [Quiet("mousemove") EXCEPT !.mouse = pt]
  /\ UNCHANGED <<mounted, active, win, canvasW, canvasH, props, particles,
                 resizeListeners, moveListeners, pending, animationRef,
                 frames, calm, drawn>>
  /\ UNCHANGED <<themeVars, formVars, typeVars>>

\* MouseMove with a handler that also recomputes the particles for the new
\* coordinate.
MouseMoveRecompute(pt) ==
  /\ moveListeners > 0
  /\ mouse' = pt
  /\ particles' = UpdateAll(particles, pt, canvasW, canvasH, props)
  /\ last' = [Quiet("mousemove") EXCEPT !.mouse = pt]
  /\ UNCHANGED <<mounted, active, win, canvasW, canvasH, props,
                 resizeListeners, moveListeners, pending, animationRef,
                 frames, calm, drawn>>
  /\ UNCHANGED <<themeVars, formVars, typeVars>>

\* A mousemove event at pt reaches a registered handleMouseMove; last keeps
\* the event's coordinate.
MouseMove(pt) ==
  /\ moveListeners > 0
  /\ mouse' = pt
  /\ last' = [Quiet("mousemove") EXCEPT !.mouse = pt]
  /\ UNCHANGED <<mounted, active, win, canvasW, canvasH, props, particles,
                 resizeListeners, moveListeners, pending, animationRef,
                 frames, calm, drawn>>
  /\ UNCHANGED <<themeVars, formVars, typeVars>>

\* Frame with the colours of the light theme, as read when the effect ran.
FrameThemeCached ==
  /\ frames < MaxFrames
  /\ \E f \in pending :
       /\ particles' = UpdateAll(particles, mouse, canvasW, canvasH, f.props)
       /\ drawn' = Animate(particles, mouse, canvasW, canvasH, f.props, FALSE)
       /\ pending' = Request(pending \ {f}, f.props)
       /\ calm' = IF ~calm.ok \/ Repelled(particles, mouse, canvasW, canvasH, f.props)
                  THEN [ok |-> FALSE, e |-> << >>]
                  ELSE [ok |-> TRUE, e |-> Append(calm.e, Energy(particles'))]
  /\ last' = Ran("frame", Len(particles), particles, mouse, canvasW, canvasH)
  /\ animationRef' = frames + 1
  /\ frames' = frames + 1
  /\ UNCHANGED <<mounted, active, win, canvasW, canvasH, props, mouse,
                 resizeListeners, moveListeners>>
  /\ UNCHANGED <<themeVars, formVars, typeVars>>

\* The browser runs a requested frame: animate() of the effect run that
\* requested it, which ends by requesting the next.
Frame ==
  /\ frames < MaxFrames
  /\ \E f \in pending :
       /\ particles' = UpdateAll(particles, mouse, canvasW, canvasH, f.props)
       /\ drawn' = Animate(particles, mouse, canvasW, canvasH, f.props, rootDark)
       /\ pending' = Request(pending \ {f}, f.props)
       /\ calm' = IF ~calm.ok \/ Repelled(particles, mouse, canvasW, canvasH, f.props)
                  THEN [ok |-> FALSE, e |-> << >>]
                  ELSE [ok |-> TRUE, e |-> Append(calm.e, Energy(particles'))]
  /\ last' = Ran("frame", Len(particles), particles, mouse, canvasW, canvasH)
  /\ animationRef' = frames + 1
  /\ frames' = frames + 1
  /\ UNCHANGED <<mounted, active, win, canvasW, canvasH, props, mouse,
                 resizeListeners, moveListeners>>
  /\ UNCHANGED <<themeVars, formVars, typeVars>>

Next ==
  \/ \E c \in BOOLEAN, pr \in PropsSet : Mount(c, pr)
  \/ \E c \in BOOLEAN, pr \in PropsSet : Rerender(c, pr)
  \/ Unmount
  \/ \E sz \in WindowSizes : Resize(sz)
  \/ \E pt \in Pointers : MouseMove(pt)
  \/ Frame

Spec == Init /\ [][Next]_vars

----------------------------------------------------------------------------
(* The per-frame update as a function of its inputs: an activated component
   with one particle, its first animate() done, in any state of the listed
   grids; from there frames, pointer moves and resizes. *)

StepSizes == { [w |-> 8, h |-> 4], [w |-> 4, h |-> 4], [w |-> 0, h |-> 4] }

StepProps ==
  { [particleDensity |-> 24, repellingRadius |-> 3000, repellingStrength |-> 20,
     connectionDistance |-> 3500, colors |-> "default"],
    [particleDensity |-> 24, repellingRadius |-> 2000, repellingStrength |-> 500,
     connectionDistance |-> CONNECTION_DISTANCE, colors |-> "default"] }

StepPointers ==
  { Origin, [x |-> 1000, y |-> 2000], [x |-> 4200, y |-> 1600],
    [x |-> 6000, y |-> 4000] }

StepParticles ==
  { [x |-> x, y |-> y, vx |-> vx, vy |-> vy, size |-> 2450] :
      x \in {600, 3200}, y \in {1000, 3400},
      vx \in {-1200, -600, 1000}, vy \in {-300, 600} }

InitStep ==
  /\ ThemeAtRest /\ FormAtRest /\ TypewriterAtRest
  /\ drawn = << >>
  /\ mounted = TRUE
  /\ active = TRUE
  /\ win \in StepSizes
  /\ canvasW = win.w
  /\ canvasH = win.h
  /\ props \in StepProps
  /\ particles \in { <<q>> : q \in StepParticles }
  /\ mouse \in StepPointers
  /\ resizeListeners = 1
  /\ moveListeners = 1
  /\ pending = { [id |-> 1, props |-> props] }
  /\ animationRef = 1
  /\ frames = 1
  /\ last = Quiet("init")
  /\ calm = [ok |-> FALSE, e |-> << >>]

NextStep ==
  \/ Frame
  \/ \E pt \in StepPointers : MouseMove(pt)
  \/ \E sz \in StepSizes : Resize(sz)

SpecStep == InitStep /\ [][NextStep]_vars

----------------------------------------------------------------------------
(* ThemeProvider: the isDark state, the class 'dark' on the document root
   and the 'theme' entry of localStorage, over page loads, toggles and
   changes of the system preference. *)

\* The values localStorage holds for 'theme': none, or one the effect wrote.
StoredValues == {"", "dark", "light"}

\* The initializer reading the system preference only.
InitialThemeSystemOnly(saved, system) == system

\* saved ? saved === 'dark' : matchMedia(...).matches
InitialTheme(saved, system) == IF saved # "" THEN saved = "dark" ELSE system

\* localStorage.setItem('theme', isDark ? 'dark' : 'light')
Stored(dark) == IF dark THEN "dark" ELSE "light"

\* A page load: the document is fresh, with or without the class on its
\* root, and the provider's first render reads the saved and the system
\* preference; its effect is due.
Loaded(c) ==
  /\ isDark = InitialTheme(storedTheme, systemDark)
  /\ rootDark = c
  /\ themeEffectDue = TRUE
  /\ themeLast = [saved |-> storedTheme, system |-> systemDark, toggles |-> 0]

InitTheme ==
  /\ ParticlesAtRest /\ FormAtRest /\ TypewriterAtRest
  /\ storedTheme \in StoredValues
  /\ systemDark \in BOOLEAN
  /\ \E c \in BOOLEAN : Loaded(c)

\* The page is loaded again.
ThemeLoad(c) ==
  /\ isDark' = InitialTheme(storedTheme, systemDark)
  /\ rootDark' = c
  /\ themeEffectDue' = TRUE
  /\ themeLast' = [saved |-> storedTheme, system |-> systemDark, toggles |-> 0]
  /\ UNCHANGED <<storedTheme, systemDark>>
  /\ UNCHANGED <<particleVars, formVars, typeVars>>

\* The effect of the latest render runs.
ThemeEffect ==
  /\ themeEffectDue
  /\ rootDark' = isDark
  /\ storedTheme' = Stored(isDark)
  /\ themeEffectDue' = FALSE
  /\ UNCHANGED <<isDark, systemDark, themeLast>>
  /\ UNCHANGED <<particleVars, formVars, typeVars>>

\* A click on a theme button: toggleTheme of the latest render.  An effect
\* still due is run before the state update is rendered.
ToggleTheme ==
  /\ themeLast.toggles < MaxToggles
  /\ isDark' = ~isDark
  /\ rootDark' = (IF themeEffectDue THEN isDark ELSE rootDark)
  /\ storedTheme' = (IF themeEffectDue THEN Stored(isDark) ELSE storedTheme)
  /\ themeEffectDue' = TRUE
  /\ themeLast' = [themeLast EXCEPT !.toggles = @ + 1]
  /\ UNCHANGED systemDark
  /\ UNCHANGED <<particleVars, formVars, typeVars>>

\* The system colour scheme changes; the provider does not listen.
SystemChange ==
  /\ systemDark' = ~systemDark
  /\ UNCHANGED <<isDark, rootDark, storedTheme, themeEffectDue, themeLast>>
  /\ UNCHANGED <<particleVars, formVars, typeVars>>

NextTheme ==
  \/ \E c \in BOOLEAN : ThemeLoad(c)
  \/ ThemeEffect
  \/ ToggleTheme
  \/ SystemChange

SpecTheme == InitTheme /\ [][NextTheme]_vars

----------------------------------------------------------------------------
(* ContactSection: the form's fields, status and errors, the calls of
   emailjs.send in flight and the auto-dismiss timers.  A text is the
   sequence of its characters. *)

MIN_MESSAGE_LENGTH == 10

\* Characters that \s matches and trim() strips, among those the inputs use.
Whitespace == {" ", "\n"}

RECURSIVE TrimStart(_)
TrimStart(t) ==
  IF t # << >> /\ Head(t) \in Whitespace THEN TrimStart(Tail(t)) ELSE t

RECURSIVE TrimEnd(_)
TrimEnd(t) ==
  IF t # << >> /\ t[Len(t)] \in Whitespace
  THEN TrimEnd(SubSeq(t, 1, Len(t) - 1))
  ELSE t

\* String.prototype.trim
Trim(t) == TrimEnd(TrimStart(t))

\* The positions of /^[^\s@]+@[^\s@]+\.[^\s@]+$/ a match can be at after
\* reading the character ch from one of the positions at: 0 before the
\* first character, 1 in the first run, 2 past the '@', 3 in the second run,
\* 4 past the '.', 5 in the third run.
RegexStep(at, ch) ==
  LET plain == ch \notin Whitespace /\ ch # "@"
  IN  { 1 : q \in { q \in at : q \in {0, 1} /\ plain } }
        \cup { 2 : q \in { q \in at : q = 1 /\ ch = "@" } }
        \cup { 3 : q \in { q \in at : q \in {2, 3} /\ plain } }
        \cup { 4 : q \in { q \in at : q = 3 /\ ch = "." } }
        \cup { 5 : q \in { q \in at : q \in {4, 5} /\ plain } }

RECURSIVE RegexRun(_, _)
RegexRun(at, t) ==
  IF t = << >> THEN at ELSE RegexRun(RegexStep(at, Head(t)), Tail(t))

\* A test that asks only for an '@' past the first character.
EmailRegexLax(t) == \E k \in 2..Len(t) : t[k] = "@"

\* VALIDATION_CONFIG.EMAIL_REGEX.test(t)
EmailRegexTest(t) == 5 \in RegexRun({0}, t)

\* The newErrors of validateForm over the form data d, "" for a field that
\* gets no entry.
ValidateForm(d) ==
  [name |-> IF Trim(d.name) = << >> THEN "Name is required" ELSE "",
   email |-> IF Trim(d.email) = << >> THEN "Email is required"
             ELSE IF ~EmailRegexTest(d.email) THEN "Please enter a valid email address"
             ELSE "",
   message |-> IF Trim(d.message) = << >> THEN "Message is required"
               ELSE IF Len(Trim(d.message)) < MIN_MESSAGE_LENGTH
                    THEN "Message must be at least 10 characters long"
               ELSE ""]

\* The text of n characters ch.
Repeat(ch, n) == [k \in 1..n |-> ch]

\* What the user leaves in the fields.
Names == { << >>, <<" ">>, <<"A", "l">> }
Emails ==
  { << >>, <<"a", "@", "b", ".", "c">>, <<"a", "@", "b">>,
    <<" ", "a", "@", "b", ".", "c">> }
Messages ==
  { << >>, Repeat("m", 9), Repeat("m", 10),
    <<" ">> \o Repeat("m", 9) \o <<"\n">> }
FieldValues == [name |-> Names, email |-> Emails, message |-> Messages]

InitForm ==
  /\ ParticlesAtRest /\ ThemeAtRest /\ TypewriterAtRest
  /\ formData = INITIAL_FORM_DATA
  /\ formStatus = "idle"
  /\ errors = NoErrors
  /\ emailConfig \in BOOLEAN
  /\ inFlight = {}
  /\ dismissTimers = << >>
  /\ submits = 0
  /\ formLast = [op |-> "init", status |-> "idle", of |-> 0]

\* handleChange for the input named field, left holding value; the inputs
\* are disabled while the status is loading.
HandleChange(field, value) ==
  /\ formStatus # "loading"
  /\ formData' = [formData EXCEPT ![field] = value]
  /\ errors' = IF errors[field] # "" THEN [errors EXCEPT ![field] = ""] ELSE errors
  /\ formLast' = [op |-> "change", status |-> formStatus, of |-> 0]
  /\ UNCHANGED <<formStatus, emailConfig, inFlight, dismissTimers, submits>>
  /\ UNCHANGED <<particleVars, themeVars, typeVars>>

\* handleSubmit up to its await: validateForm; on a valid form the status
\* loading and, the configuration present, emailjs.send with the form data;
\* the configuration missing, the throw and the catch block.  The submit
\* button is disabled while the status is loading.
HandleSubmit ==
  /\ formStatus # "loading"
  /\ errors' = ValidateForm(formData)
  /\ formLast' = [op |-> "submit", status |-> formStatus, of |-> 0]
  /\ IF ValidateForm(formData) # NoErrors
     THEN UNCHANGED <<formStatus, inFlight, dismissTimers, submits>>
     ELSE /\ submits < MaxSubmits
          /\ submits' = submits + 1
          /\ IF emailConfig
             THEN /\ formStatus' = "loading"
                  /\ inFlight' = inFlight \cup { [id |-> submits + 1, params |-> formData] }
                  /\ UNCHANGED dismissTimers
             ELSE /\ formStatus' = "error"
                  /\ dismissTimers' = Append(dismissTimers, submits + 1)
                  /\ UNCHANGED inFlight
  /\ UNCHANGED <<formData, emailConfig>>
  /\ UNCHANGED <<particleVars, themeVars, typeVars>>

\* SendResolve without the setTimeout.
SendResolveNoTimer(send) ==
  /\ send \in inFlight
  /\ inFlight' = inFlight \ {send}
  /\ formStatus' = "success"
  /\ formData' = INITIAL_FORM_DATA
  /\ dismissTimers' = dismissTimers
  /\ formLast' = [op |-> "resolve", status |-> formStatus, of |-> send.id]
  /\ UNCHANGED <<errors, emailConfig, submits>>
  /\ UNCHANGED <<particleVars, themeVars, typeVars>>

\* The promise of send resolves: handleSubmit past its await.
SendResolve(send) ==
  /\ send \in inFlight
  /\ inFlight' = inFlight \ {send}
  /\ formStatus' = "success"
  /\ formData' = INITIAL_FORM_DATA
  /\ dismissTimers' = Append(dismissTimers, send.id)
  /\ formLast' = [op |-> "resolve", status |-> formStatus, of |-> send.id]
  /\ UNCHANGED <<errors, emailConfig, submits>>
  /\ UNCHANGED <<particleVars, themeVars, typeVars>>

\* The promise of send rejects: the catch block of handleSubmit.
SendReject(send) ==
  /\ send \in inFlight
  /\ inFlight' = inFlight \ {send}
  /\ formStatus' = "error"
  /\ dismissTimers' = Append(dismissTimers, send.id)
  /\ formLast' = [op |-> "reject", status |-> formStatus, of |-> send.id]
  /\ UNCHANGED <<formData, errors, emailConfig, submits>>
  /\ UNCHANGED <<particleVars, themeVars, typeVars>>

\* The oldest auto-dismiss timer fires: all run the same delay, so they
\* fire in the order they were set.
Dismiss ==
  /\ dismissTimers # << >>
  /\ formStatus' = "idle"
  /\ dismissTimers' = Tail(dismissTimers)
  /\ formLast' = [op |-> "dismiss", status |-> formStatus, of |-> Head(dismissTimers)]
  /\ UNCHANGED <<formData, errors, emailConfig, inFlight, submits>>
  /\ UNCHANGED <<particleVars, themeVars, typeVars>>

NextForm ==
  \/ \E field \in {"name", "email", "message"} :
       \E value \in FieldValues[field] : HandleChange(field, value)
  \/ HandleSubmit
  \/ \E send \in inFlight : SendResolve(send)
  \/ \E send \in inFlight : SendReject(send)
  \/ Dismiss

SpecForm == InitForm /\ [][NextForm]_vars

\* A timer that was set fires.
SpecFormLive == SpecForm /\ WF_vars(Dismiss)

----------------------------------------------------------------------------
(* TypewriterEffect: the word index, the displayed text and the deleting
   flag, driven by the timeout of the animation effect and by the pause
   timeout; the words prop and the speeds keep their values, so the effect
   runs again only when the component's own state changes. *)

\* The words prop: a word is the sequence of its characters.
WordLists ==
  { << <<"D", "e", "v">> >>,
    << <<"D", "e", "v">>, <<"A", "I">> >>,
    << <<"a">>, << >>, <<"b", "c">> >>,
    << <<"R", "e", "a", "c", "t">>, <<"D", "e", "v">>, <<"A", "I">> >> }

\* An index that stays where it is.
NextIndexStuck(index, n) == index

\* (prevIndex + 1) % words.length
NextIndex(index, n) == (index + 1) % n

\* words[currentWordIndex]
CurrentWord == words[currentWordIndex + 1]

\* What a step of the typewriter found.
Found(op) ==
  [op |-> op, index |-> currentWordIndex, text |-> currentText, deleting |-> isDeleting]

InitTypewriter ==
  /\ ParticlesAtRest /\ ThemeAtRest /\ FormAtRest
  /\ words \in WordLists
  /\ Len(words) <= MaxWords
  /\ currentWordIndex = 0
  /\ currentText = << >>
  /\ isDeleting = FALSE
  /\ showCursor = TRUE
  /\ animationTimeout = TRUE
  /\ pauseTimers = 0
  /\ typeMounted = TRUE
  /\ typeLast = [op |-> "init", index |-> 0, text |-> << >>, deleting |-> FALSE]

\* The timeout of the animation effect fires.  A state update makes the
\* component render again with changed dependencies, and the effect sets
\* the next timeout; the word complete, the callback only sets the pause
\* timeout.
AnimationTimeout ==
  /\ animationTimeout
  /\ typeLast' = Found("timeout")
  /\ IF ~isDeleting
     THEN IF Len(currentText) < Len(CurrentWord)
          THEN /\ currentText' = SubSeq(CurrentWord, 1, Len(currentText) + 1)
               /\ animationTimeout' = TRUE
               /\ UNCHANGED <<currentWordIndex, isDeleting, pauseTimers>>
          ELSE /\ pauseTimers' = pauseTimers + 1
               /\ animationTimeout' = FALSE
               /\ UNCHANGED <<currentWordIndex, currentText, isDeleting>>
     ELSE IF Len(currentText) > 0
          THEN /\ currentText' = SubSeq(currentText, 1, Len(currentText) - 1)
               /\ animationTimeout' = TRUE
               /\ UNCHANGED <<currentWordIndex, isDeleting, pauseTimers>>
          ELSE /\ isDeleting' = FALSE
               /\ currentWordIndex' = NextIndex(currentWordIndex, Len(words))
               /\ animationTimeout' = TRUE
               /\ UNCHANGED <<currentText, pauseTimers>>
  /\ UNCHANGED <<words, showCursor, typeMounted>>
  /\ UNCHANGED <<particleVars, themeVars, formVars>>

\* A pause timeout fires: setIsDeleting(true).  If that changes the state,
\* the effect runs again: it clears the timeout of the run before and sets
\* its own.  On an instance that is unmounted the call changes nothing.
PauseTimeout ==
  /\ pauseTimers > 0
  /\ typeLast' = Found("pause")
  /\ pauseTimers' = pauseTimers - 1
  /\ IF typeMounted
     THEN /\ isDeleting' = TRUE
          /\ animationTimeout' = (IF isDeleting THEN animationTimeout ELSE TRUE)
     ELSE UNCHANGED <<isDeleting, animationTimeout>>
  /\ UNCHANGED <<words, currentWordIndex, currentText, showCursor, typeMounted>>
  /\ UNCHANGED <<particleVars, themeVars, formVars>>

\* The cursor interval fires: the component renders again, the
\* dependencies of the animation effect unchanged.
CursorInterval ==
  /\ typeMounted
  /\ words # << >>
  /\ typeLast' = Found("blink")
  /\ showCursor' = ~showCursor
  /\ UNCHANGED <<words, currentWordIndex, currentText, isDeleting,
                 animationTimeout, pauseTimers, typeMounted>>
  /\ UNCHANGED <<particleVars, themeVars, formVars>>

NextTypewriter ==
  \/ AnimationTimeout
  \/ PauseTimeout
  \/ CursorInterval

SpecTypewriter == InitTypewriter /\ [][NextTypewriter]_vars

\* A timeout that was set and is not cleared fires.
SpecTypewriterLive ==
  SpecTypewriter /\ WF_vars(AnimationTimeout) /\ WF_vars(PauseTimeout)

\* The component unmounts: the cleanups of its two effects run,
\* clearTimeout(animationTimeout) and clearInterval(cursorInterval).  The
\* timeout of the pause has no handle and stays.
UnmountTypewriter ==
  /\ typeMounted
  /\ typeMounted' = FALSE
  /\ animationTimeout' = FALSE
  /\ typeLast' = Found("unmount")
  /\ UNCHANGED <<words, currentWordIndex, currentText, isDeleting, showCursor,
                 pauseTimers>>
  /\ UNCHANGED <<particleVars, themeVars, formVars>>

\* The typewriter up to and after its unmount.
NextTypewriterLife ==
  \/ NextTypewriter
  \/ UnmountTypewriter

SpecTypewriterLife == InitTypewriter /\ [][NextTypewriterLife]_vars

----------------------------------------------------------------------------
(* The drawing of a frame as a function of its inputs: an activated
   component on a canvas of 200 by 4 pixels with three particles, so that
   the fixed distances of animate() (80, 50, 120) and the default radius
   and connection distance (150, 100) lie inside the canvas; from there
   frames, pointer moves and theme toggles. *)

DrawSizes == { [w |-> 200, h |-> 4] }

\* The default radius, strength and connection distance, and a
\* configuration with a smaller radius and connection distance; the
\* density is the one that gives the canvas three particles.
DrawProps ==
  { [particleDensity |-> 250, repellingRadius |-> 150000, repellingStrength |-> 20,
     connectionDistance |-> CONNECTION_DISTANCE, colors |-> "default"],
    [particleDensity |-> 250, repellingRadius |-> 60000, repellingStrength |-> 20,
     connectionDistance |-> 40000, colors |-> "default"] }

\* The first particle of the first array is tested at (21, 1.6): the
\* pointers on y = 1.6 are at 50, 80, 120 and 150 pixels from there.
DrawPointers ==
  { [x |-> 71000, y |-> 1600], [x |-> 101000, y |-> 1600],
    [x |-> 141000, y |-> 1600], [x |-> 171000, y |-> 1600],
    [x |-> 81000, y |-> 3000] }

DrawParticles ==
  { << [x |-> a[1], y |-> a[2], vx |-> a[3], vy |-> a[4], size |-> 2450],
       [x |-> b[1], y |-> b[2], vx |-> b[3], vy |-> b[4], size |-> 1200],
       [x |-> 150000, y |-> 3000, vx |-> -600, vy |-> -300, size |-> 3700] >> :
      a \in { <<20000, 1000, 1000, 600>>, <<45000, 1600, -1200, 0>> },
      b \in { <<121000, 1600, -1200, 300>>, <<60000, 2000, 600, 600>> } }

InitDraw ==
  /\ ThemeAtRest /\ FormAtRest /\ TypewriterAtRest
  /\ drawn = << >>
  /\ mounted = TRUE
  /\ active = TRUE
  /\ win \in DrawSizes
  /\ canvasW = win.w
  /\ canvasH = win.h
  /\ props \in DrawProps
  /\ particles \in DrawParticles
  /\ mouse \in DrawPointers
  /\ resizeListeners = 1
  /\ moveListeners = 1
  /\ pending = { [id |-> 1, props |-> props] }
  /\ animationRef = 1
  /\ frames = 1
  /\ last = Quiet("init")
  /\ calm = [ok |-> FALSE, e |-> << >>]

NextDraw ==
  \/ Frame
  \/ \E pt \in DrawPointers : MouseMove(pt)
  \/ ToggleTheme
  \/ ThemeEffect

SpecDraw == InitDraw /\ [][NextDraw]_vars

----------------------------------------------------------------------------
(* Properties *)

\* Particle q lies on a surface of w by h pixels.
Inside(q, w, h) == 0 <= q.x /\ q.x <= w * SCALE /\ 0 <= q.y /\ q.y <= h * SCALE

\* The particle count the canvas and the props call for.
Expected(w, h, pr) == (w * h - ((w * h) % pr.particleDensity)) \div pr.particleDensity

\* A step that ran the effect to its end (createParticles included).
EffectRan == last.ran /\ last.op \in {"mount", "rerender"}

\* C1: boundary containment.  At the end of every frame that began with
\* every particle on the surface, every particle is on the surface:
\* 0 <= x <= width and 0 <= y <= height.
C1_BoundaryContainment ==
  (last.ran /\ \A i \in 1..Len(last.before) : Inside(last.before[i], last.w, last.h))
    => \A i \in 1..Len(particles) : Inside(particles[i], last.w, last.h)

\* C2: resize rebuilds the field.  In the state a handled resize event
\* leaves, the array holds floor(newWidth * newHeight / densityDivisor)
\* particles.
C2_ResizeRebuilds ==
  (last.op = "resize" /\ active)
    => Len(particles) = Expected(canvasW, canvasH, props)

\* C3: particle count.  The Field Initializer leaves exactly
\* floor(W * H / D) particles, whatever the array held before, and the
\* frame that follows keeps that count; on a zero-area surface that is no
\* particle, and a frame over the empty array leaves it empty.
C3_ParticleCount ==
  /\ EffectRan =>
       /\ Len(last.before) = Expected(last.w, last.h, props)
       /\ Len(particles) = Expected(last.w, last.h, props)
       /\ (last.w * last.h = 0 => particles = << >>)
  /\ (last.ran /\ last.before = << >>) => particles = << >>

\* C3's case: the effect ran again over a non-empty array and left two
\* particles.
C3_Witness == EffectRan /\ last.prior >= 1 /\ Len(particles) = 2

\* C4: no leak across the lifecycle.  Deactivated, the component has no
\* resize listener, no mousemove listener and no pending frame; activated,
\* at most one of each.
C4_NoLeak ==
  /\ ~active => (resizeListeners = 0 /\ moveListeners = 0 /\ pending = {})
  /\ active => (resizeListeners <= 1 /\ moveListeners <= 1 /\ Cardinality(pending) <= 1)

\* C4's case: the component was activated twice and is deactivated.
C4_Witness == ~active /\ frames >= 2 /\ last.op \in {"unmount", "rerender"}

\* C5: the simulation runs exactly while mounted.  Every step that runs
\* animate() leaves the component activated with a frame pending, and a
\* frame callback runs only while the component is activated.
C5_RunsWhileMounted ==
  [][frames' # frames =>
       /\ active' /\ pending' # {}
       /\ (last'.op = "frame" => active)]_vars

\* C5's case: a frame callback has run and the next frame is pending.
C5_Witness == last.op = "frame" /\ active /\ pending # {} /\ frames >= 2

\* C6: energy decay without pointer input.  While no frame since
\* createParticles has had a particle inside the repelling radius, the sum
\* of squared velocity components never increases from one frame to the
\* next, and after any later frame it is strictly smaller than after frame
\* 1 if it was positive then.
C6_EnergyDecay ==
  calm.ok =>
    /\ \A i \in 1..(Len(calm.e) - 1) : calm.e[i + 1] <= calm.e[i]
    /\ \A j \in 3..Len(calm.e) : calm.e[2] > 0 => calm.e[j] < calm.e[2]

\* C6's case: two frames without repulsion over moving particles.
C6_Witness == calm.ok /\ Len(calm.e) >= 3 /\ calm.e[2] > 0

\* Particle i of the latest animate() after its advance and edge steps.
AtTest(i) == Collide(Advance(last.before[i]), last.w * SCALE, last.h * SCALE)

\* Its distance to the pointer there.
TestDistance(i) == Distance(AtTest(i), last.mouse)

\* C7: hard repulsion cutoff.  A particle whose distance to the pointer
\* after the advance and edge steps is at least the repelling radius leaves
\* the frame with the position and velocity of a frame without pointer:
\* advanced, bounced and damped, with no displacement and no velocity
\* change from repulsion.
C7_HardCutoff ==
  last.ran =>
    \A i \in 1..Len(last.before) :
      TestDistance(i) >= props.repellingRadius => particles[i] = Damp(AtTest(i))

\* C7's case: a moving particle exactly at the repelling radius.
C7_Witness ==
  /\ last.ran
  /\ \E i \in 1..Len(last.before) :
       /\ TestDistance(i) = props.repellingRadius
       /\ last.before[i].vx # 0
       /\ AtTest(i).x # last.mouse.x /\ AtTest(i).y # last.mouse.y

\* C8: repulsion falloff law.  At distance d < R from the pointer the
\* force is (R - d) / R, which is 1 at d = 0; the position moves by
\* (particle - pointer) * force * repellingStrength and the velocity, before
\* damping, by (particle - pointer) * force * 0.001; and the particle ends
\* no closer to the pointer than it was.
C8_Falloff ==
  last.ran =>
    \A i \in 1..Len(last.before) :
      LET q == AtTest(i)
          d == TestDistance(i)
          R == props.repellingRadius
          force == Div(R - d, R)
          ax == Mul(q.x - last.mouse.x, force)
          ay == Mul(q.y - last.mouse.y, force)
      IN  d < R =>
            /\ (d = 0 => force = SCALE)
            /\ 0 <= force /\ force <= SCALE
            /\ particles[i].x = q.x + Mul(ax, props.repellingStrength)
            /\ particles[i].y = q.y + Mul(ay, props.repellingStrength)
            /\ particles[i].vx = Mul(q.vx + Mul(ax, VELOCITY_NUDGE), VELOCITY_DAMPING)
            /\ particles[i].vy = Mul(q.vy + Mul(ay, VELOCITY_NUDGE), VELOCITY_DAMPING)
            /\ Distance(particles[i], last.mouse) >= d

\* C8's case: a particle inside the radius that the frame displaced and
\* whose velocity it nudged.
C8_Witness ==
  /\ last.ran
  /\ \E i \in 1..Len(last.before) :
       /\ TestDistance(i) < props.repellingRadius
       /\ particles[i].x # AtTest(i).x
       /\ particles[i].vx # Damp(AtTest(i)).vx
       /\ Distance(particles[i], last.mouse) > TestDistance(i)

\* The edge rule as the claim words it, for one axis: a coordinate outside
\* [0, extent] is clamped to the violated boundary and the velocity
\* component changes sign and is scaled by the bounce retention; a
\* coordinate inside [0, extent] leaves the velocity component untouched.
ClaimedAxis(c, v, extent) ==
  IF c < 0 THEN <<0, Mul(-v, BOUNCE_ENERGY_LOSS)>>
  ELSE IF c > extent THEN <<extent, Mul(-v, BOUNCE_ENERGY_LOSS)>>
  ELSE <<c, v>>

\* The edge rule of the code, for one axis: at or below 0 the coordinate
\* becomes 0 and the velocity component |v| * retention; at or above the
\* extent the coordinate becomes the extent and the velocity component
\* -|v| * retention; strictly between, nothing changes.  On an axis of
\* extent 0 a coordinate at or below 0 meets both tests in turn.
AmendedAxis(c, v, extent) ==
  IF c <= 0 /\ extent = 0
  THEN <<0, Mul(-Mul(Abs(v), BOUNCE_ENERGY_LOSS), BOUNCE_ENERGY_LOSS)>>
  ELSE IF c <= 0 THEN <<0, Mul(Abs(v), BOUNCE_ENERGY_LOSS)>>
  ELSE IF c >= extent THEN <<extent, Mul(-Abs(v), BOUNCE_ENERGY_LOSS)>>
  ELSE <<c, v>>

\* What the rest of the frame (repulsion, damping) makes of particle a once
\* its axes have been set to the pairs ax and ay.
AfterEdges(a, ax, ay) ==
  Damp(Repel([a EXCEPT !.x = ax[1], !.vx = ax[2], !.y = ay[1], !.vy = ay[2]],
             last.mouse, props))

\* C9 as stated: each axis independently follows the rule of ClaimedAxis.
C9_AsStated ==
  last.ran =>
    \A i \in 1..Len(last.before) :
      LET a == Advance(last.before[i])
      IN  particles[i] = AfterEdges(a, ClaimedAxis(a.x, a.vx, last.w * SCALE),
                                       ClaimedAxis(a.y, a.vy, last.h * SCALE))

\* C9, amended: each axis independently follows the rule of AmendedAxis:
\* the tests include the boundary itself, and the velocity component is
\* set to point into the surface rather than sign-flipped.
C9_EdgeRule ==
  last.ran =>
    \A i \in 1..Len(last.before) :
      LET a == Advance(last.before[i])
      IN  particles[i] = AfterEdges(a, AmendedAxis(a.x, a.vx, last.w * SCALE),
                                       AmendedAxis(a.y, a.vy, last.h * SCALE))

\* C9's case: a particle beyond the right edge that was already moving
\* left, and one that the advance step put exactly on an edge.
C9_Witness ==
  /\ last.ran
  /\ \E i \in 1..Len(last.before) :
       LET a == Advance(last.before[i])
       IN  \/ a.x > last.w * SCALE /\ a.vx < 0
           \/ a.x = 0 /\ a.vx < 0

\* C10: integration step order.  One frame is, per particle: position +=
\* velocity; then the edge step; then repulsion from the position those two
\* produced; then one multiplication of both velocity components by the
\* damping factor, which so damps the nudge repulsion added in this frame.
C10_StepOrder ==
  last.ran =>
    \A i \in 1..Len(last.before) :
      LET p0 == last.before[i]
          p1 == [p0 EXCEPT !.x = p0.x + p0.vx, !.y = p0.y + p0.vy]
          p2 == Collide(p1, last.w * SCALE, last.h * SCALE)
          p3 == Repel(p2, last.mouse, props)
          p4 == [p3 EXCEPT !.vx = Mul(p3.vx, VELOCITY_DAMPING),
                           !.vy = Mul(p3.vy, VELOCITY_DAMPING)]
      IN  particles[i] = p4

\* C10's case: a frame in which all four steps acted on one particle: it
\* moved, bounced, was repelled and was damped.
C10_Witness ==
  /\ last.ran
  /\ \E i \in 1..Len(last.before) :
       LET p1 == Advance(last.before[i])
       IN  /\ p1 # last.before[i]
           /\ AtTest(i) # p1
           /\ Repel(AtTest(i), last.mouse, props) # AtTest(i)
           /\ particles[i] # Repel(AtTest(i), last.mouse, props)

\* Particles to put in the place of the others: far from where the field
\* initializer puts any, moving or still.
Strangers ==
  { [x |-> 5500, y |-> 300, vx |-> -900, vy |-> 0, size |-> 1200],
    [x |-> 100, y |-> 3900, vx |-> 0, vy |-> 0, size |-> 3700] }

\* The arrays that agree with ps on particle i: ps with every other particle
\* replaced by the stranger o, and particle i alone.
Agreeing(ps, i) ==
  { [k \in 1..Len(ps) |-> IF k = i THEN ps[i] ELSE o] : o \in Strangers }
    \cup { <<ps[i]>> }

\* The index particle i of ps has in the agreeing array alt.
IndexIn(alt, ps, i) == IF Len(alt) = Len(ps) THEN i ELSE 1

\* C11: no particle-to-particle physics.  Particle i leaves a frame with
\* the position and velocity it would leave it with in any other array that
\* agrees on particle i, under the same pointer and surface; and a frame,
\* connection lines drawn or not, leaves every particle where its own update
\* put it, with its radius unchanged.
C11_NoCoupling ==
  last.ran =>
    \A i \in 1..Len(last.before) :
      /\ \A alt \in Agreeing(last.before, i) :
           UpdateAll(alt, last.mouse, last.w, last.h, props)[IndexIn(alt, last.before, i)]
             = particles[i]
      /\ particles[i].size = last.before[i].size
      /\ particles[i] = Damp(Repel(AtTest(i), last.mouse, props))

\* C11's case: a frame over two different particles that drew a connection
\* line between them and moved both.
C11_Witness ==
  /\ last.ran
  /\ Len(last.before) = 2
  /\ last.before[1] # last.before[2]
  /\ \E k \in 1..Len(drawn) : drawn[k].op = "line"
  /\ \A i \in 1..2 : particles[i].x # last.before[i].x

\* C12: frame scheduling.  animate() requests the next frame once, as its
\* last call, after every update and drawing call of the frame; at every
\* moment at most one frame callback is pending, and after an animate() it
\* is the one that animate() requested, so a frame starts only after the
\* frame before it is complete.
C12_FrameScheduling ==
  /\ Cardinality(pending) <= 1
  /\ last.ran =>
       /\ drawn # << >>
       /\ drawn[Len(drawn)].op = "requestAnimationFrame"
       /\ \A k \in 1..(Len(drawn) - 1) : drawn[k].op # "requestAnimationFrame"
       /\ \A f \in pending : f.id = animationRef /\ f.id = frames

\* C12's case: the third animate(), run as a frame callback after a pointer
\* move, that drew particles and left one request pending.
C12_Witness ==
  /\ last.op = "frame"
  /\ frames >= 3
  /\ mouse # Origin
  /\ Len(drawn) >= 4
  /\ Cardinality(pending) = 1

\* C13: missing canvas at activation.  An effect run that finds no canvas
\* returns with the component mounted and not activated: no listener is
\* registered, no frame pending, no animate() run and the particle array as
\* it was (empty on a mount); and the next effect run that finds a canvas
\* leaves the simulation set up: one listener of each kind, one frame
\* pending, the canvas at the window's size and floor(W * H / D) particles.
C13_MissingCanvas ==
  [][/\ (last'.op \in {"mount", "rerender"} /\ ~last'.ran) =>
          /\ mounted' /\ ~active'
          /\ resizeListeners' = 0 /\ moveListeners' = 0 /\ pending' = {}
          /\ frames' = frames
          /\ particles' = (IF mounted THEN particles ELSE << >>)
     /\ (mounted /\ ~active /\ last'.ran) =>
          /\ mounted' /\ active'
          /\ resizeListeners' = 1 /\ moveListeners' = 1
          /\ Cardinality(pending') = 1
          /\ canvasW' = win.w /\ canvasH' = win.h
          /\ Len(particles') = Expected(win.w, win.h, props')]_vars

\* C13's case: the first animate() of all ran in a re-render, so every
\* activation before it found no canvas; it left particles.
C13_Witness ==
  /\ last.op = "rerender" /\ last.ran
  /\ frames = 1
  /\ active /\ Len(particles) >= 1

\* C18: update-then-render.  Every circle of a frame is drawn at the
\* position its particle has at the end of the frame, and every connection
\* line runs between the end-of-frame positions of its two particles: the
\* line from particle i to particle j ends where particle j's circle is
\* drawn.
C18_UpdateThenRender ==
  last.ran =>
    \A k \in 1..Len(drawn) :
      /\ drawn[k].op = "circle" =>
            drawn[k].x = particles[drawn[k].i].x /\ drawn[k].y = particles[drawn[k].i].y
      /\ drawn[k].op = "line" =>
            /\ drawn[k].x1 = particles[drawn[k].i].x
            /\ drawn[k].y1 = particles[drawn[k].i].y
            /\ drawn[k].x2 = particles[drawn[k].j].x
            /\ drawn[k].y2 = particles[drawn[k].j].y

\* C20: event ordering.  A handled mousemove leaves its own coordinate
\* stored and a handled resize leaves the canvas at the window's size; and
\* a frame callback computes and draws with the pointer coordinate of the
\* latest event delivered before it and bounces at and clears the size the
\* latest resize gave the window.
C20_EventOrder ==
  [][/\ last'.op = "mousemove" => mouse' = last'.mouse
     /\ (last'.op = "resize" /\ active) => (canvasW' = win'.w /\ canvasH' = win'.h)
     /\ last'.op = "frame" =>
          LET m == IF last.op = "mousemove" THEN last.mouse ELSE mouse
          IN  /\ particles' = UpdateAll(particles, m, win.w, win.h, props)
              /\ drawn' = Animate(particles, m, win.w, win.h, props, rootDark)
              /\ drawn'[1] = [op |-> "clearRect", w |-> win.w * SCALE, h |-> win.h * SCALE]
              /\ last'.mouse = m /\ last'.w = win.w /\ last'.h = win.h]_vars

\* C20's case: the first frame callback after the activation, run after a
\* pointer move and after a resize to a size that calls for another count
\* of particles than the array holds.
C20_Witness ==
  /\ last.op = "frame"
  /\ frames = 2
  /\ last.mouse # Origin
  /\ Len(last.before) >= 1
  /\ Len(last.before) # Expected(last.w, last.h, props)

\* The theme the latest page load started with, as the claim words it: the
\* saved preference if there was one, the system preference otherwise.
StartedDark ==
  IF themeLast.saved = "dark" THEN TRUE
  ELSE IF themeLast.saved = "light" THEN FALSE
  ELSE themeLast.system

\* C14: theme state.  isDark is the theme the load started with, flipped
\* once per toggle since; and whenever the effect of the latest render has
\* run, the document root carries 'dark' if and only if isDark, and the
\* stored 'theme' is 'dark' if isDark and 'light' if not.
C14_ThemeConsistent ==
  /\ isDark = (IF themeLast.toggles % 2 = 0 THEN StartedDark ELSE ~StartedDark)
  /\ ~themeEffectDue =>
       /\ rootDark <=> isDark
       /\ storedTheme = "dark" <=> isDark
       /\ storedTheme = "light" <=> ~isDark

\* C14's case: a load with nothing saved under a dark system preference and
\* a root carrying no class, then three toggles with the effect run: light,
\* against the system preference.
C14_Witness ==
  /\ themeLast = [saved |-> "", system |-> TRUE, toggles |-> 3]
  /\ ~themeEffectDue
  /\ ~isDark /\ ~rootDark /\ storedTheme = "light" /\ systemDark

\* The text t has no character other than whitespace.
Blank(t) == \A k \in 1..Len(t) : t[k] \in Whitespace

\* The number of characters of t from its first to its last character that
\* is not whitespace.
TrimmedLength(t) ==
  IF Blank(t) THEN 0
  ELSE LET solid == { k \in 1..Len(t) : t[k] \notin Whitespace }
           first == CHOOSE k \in solid : \A j \in solid : k <= j
           final == CHOOSE k \in solid : \A j \in solid : k >= j
       IN  final - first + 1

\* An address of the form local@domain.tld: one '@', no whitespace, text
\* before the '@', and after it a '.' with text on both its sides.
WellFormed(t) ==
  \E a \in 2..Len(t) : \E b \in (a + 2)..(Len(t) - 1) :
    /\ t[a] = "@" /\ t[b] = "."
    /\ \A k \in 1..Len(t) : t[k] \notin Whitespace /\ (t[k] = "@" => k = a)

\* The fields of d the claim's words make invalid: a name of no character,
\* an email of no character or not well-formed, a message of fewer than 10
\* characters after trimming.
InvalidAsStated(d) ==
  { f \in {"name"} : d.name = << >> }
    \cup { f \in {"email"} : d.email = << >> \/ ~WellFormed(d.email) }
    \cup { f \in {"message"} : TrimmedLength(d.message) < MIN_MESSAGE_LENGTH }

\* The fields of d the code makes invalid: as above, with a name of nothing
\* but whitespace invalid too.
Invalid(d) ==
  { f \in {"name"} : Blank(d.name) }
    \cup { f \in {"email"} : Blank(d.email) \/ ~WellFormed(d.email) }
    \cup { f \in {"message"} : TrimmedLength(d.message) < MIN_MESSAGE_LENGTH }

\* The fields with an error message.
Flagged(e) == { f \in {"name", "email", "message"} : e[f] # "" }

\* C15 as stated: a submit of a form with an invalid field, by the claim's
\* words, sends nothing, leaves the status idle and the data unchanged and
\* records an error for exactly those fields.
C15_AsStated ==
  [][(formLast'.op = "submit" /\ InvalidAsStated(formData) # {}) =>
       /\ inFlight' = inFlight
       /\ formStatus' = "idle"
       /\ formData' = formData
       /\ Flagged(errors') = InvalidAsStated(formData)]_vars

\* C15, amended: a submit of a form with an invalid field (a name or an
\* email that is empty or all whitespace, an email that is not well-formed,
\* a message of fewer than 10 characters after trimming) calls no send,
\* sets no timer, leaves the status as it was (idle, or the success or error
\* of an earlier submission still showing) and the data unchanged, and
\* records an error for exactly the invalid fields; a submit of a valid form
\* clears the errors and, the EmailJS configuration present, moves the
\* status to loading and sends the form data.
C15_ValidationGate ==
  [][formLast'.op = "submit" =>
       IF Invalid(formData) # {}
       THEN /\ inFlight' = inFlight
            /\ dismissTimers' = dismissTimers
            /\ formStatus' = formStatus /\ formStatus' # "loading"
            /\ (formStatus = "idle" => formStatus' = "idle")
            /\ formData' = formData
            /\ Flagged(errors') = Invalid(formData)
       ELSE /\ Flagged(errors') = {}
            /\ emailConfig =>
                 /\ formStatus' = "loading"
                 /\ \E send \in inFlight' \ inFlight : send.params = formData]_vars

\* C15's case: a submit left errors on the name, which is a space, and on
\* the email, which has a leading space, and on no other field, while the
\* error of an earlier submission was still showing.
C15_Witness ==
  /\ formLast.op = "submit"
  /\ formStatus = "error"
  /\ formData.name = <<" ">>
  /\ formData.email = <<" ", "a", "@", "b", ".", "c">>
  /\ Flagged(errors) = {"name", "email"}

\* C16: outcome and auto-dismissal.  A send that resolves sets the status
\* to success and every field to empty; a send that rejects, and a valid
\* submit without the EmailJS configuration, set the status to error and
\* keep the fields; each sets one auto-dismiss timer; a status of success or
\* error gives way to idle only by a timer firing, and it always does in
\* the end.
C16_Outcome ==
  /\ [][ /\ (formLast'.op = "resolve") =>
              (/\ formStatus' = "success"
               /\ formData' = INITIAL_FORM_DATA
               /\ Len(dismissTimers') = Len(dismissTimers) + 1)
         /\ (formLast'.op = "reject"
               \/ (formLast'.op = "submit" /\ Invalid(formData) = {} /\ ~emailConfig)) =>
              (/\ formStatus' = "error"
               /\ formData' = formData
               /\ Len(dismissTimers') = Len(dismissTimers) + 1)
         /\ (formStatus \in {"success", "error"} /\ formStatus' = "idle") =>
              (formLast'.op = "dismiss")]_vars
  /\ (formStatus \in {"success", "error"}) ~> (formStatus = "idle")

\* C16's case: the timer of the latest submission, which succeeded, found
\* the status success and left it idle, the fields empty.
C16_Witness ==
  /\ formLast = [op |-> "dismiss", status |-> "success", of |-> submits]
  /\ formStatus = "idle"
  /\ formData = INITIAL_FORM_DATA
  /\ dismissTimers = << >>

\* C19: in-flight exclusivity.  While a send is in flight the status is
\* loading, so at most one send is in flight; and the auto-dismiss timer of
\* a submission never changes the status once a later submission has been
\* made.
C19_InFlightExclusive ==
  /\ inFlight # {} => formStatus = "loading"
  /\ Cardinality(inFlight) <= 1
  /\ (formLast.op = "dismiss" /\ formLast.of < submits) => formLast.status = "idle"

\* The text t begins the word w.
Prefix(t, w) == Len(t) <= Len(w) /\ t = SubSeq(w, 1, Len(t))

\* C17: typewriter cycle.  The displayed text is always a prefix of the
\* current word.  It changes by one character at a time: while typing it
\* grows, while deleting it shrinks.  Deleting starts only from the whole
\* word, by the pause timeout that the completed word set; the index
\* changes only from the empty text while deleting, to (index + 1) mod the
\* number of words, and typing starts again.  And every word is whole on
\* display again and again for ever.
C17_TypewriterCycle ==
  /\ [](currentWordIndex \in 0..(Len(words) - 1) /\ Prefix(currentText, CurrentWord))
  /\ [][ /\ currentText' # currentText =>
              IF isDeleting
              THEN isDeleting' /\ currentText' = SubSeq(currentText, 1, Len(currentText) - 1)
              ELSE ~isDeleting' /\ Len(currentText') = Len(currentText) + 1
         /\ (~isDeleting /\ isDeleting') =>
              (currentText = CurrentWord /\ typeLast'.op = "pause" /\ currentText' = currentText)
         /\ (pauseTimers' > pauseTimers) =>
              (currentText = CurrentWord /\ ~isDeleting /\ pauseTimers = 0)
         /\ (isDeleting /\ ~isDeleting') =>
              (/\ currentText = << >> /\ currentText' = << >>
               /\ currentWordIndex' = (currentWordIndex + 1) % Len(words))
         /\ currentWordIndex' # currentWordIndex => (isDeleting /\ ~isDeleting')
         /\ words' = words ]_vars
  /\ \A k \in 1..MaxWords :
       []<>(k <= Len(words) =>
              (currentWordIndex = k - 1 /\ currentText = words[k] /\ ~isDeleting))

\* C17's case: the last of three words deleted to the empty text, the
\* index has wrapped around to the first word.
C17_Witness ==
  /\ Len(words) = 3
  /\ typeLast = [op |-> "timeout", index |-> 2, text |-> << >>, deleting |-> TRUE]
  /\ currentWordIndex = 0
  /\ currentText = << >>
  /\ ~isDeleting

----------------------------------------------------------------------------
(* The pointer handler *)

\* C21: the pointer-move handler changes only the stored pointer
\* coordinate.  A step that handles a mousemove leaves the particle array
\* (its length and every particle's position, velocity and size), the
\* canvas dimensions, the registered listeners and the pending frame
\* requests as they were.
C21_PointerOnly ==
  [][last'.op = "mousemove" =>
       /\ particles' = particles
       /\ canvasW' = canvasW /\ canvasH' = canvasH
       /\ resizeListeners' = resizeListeners
       /\ moveListeners' = moveListeners
       /\ pending' = pending
       /\ animationRef' = animationRef]_vars

\* C21's case: a mousemove handled while the field holds particles and a
\* frame is pending, at a coordinate from which the next frame repels one
\* of them.
C21_Witness ==
  /\ last.op = "mousemove"
  /\ mouse = last.mouse
  /\ Len(particles) >= 2
  /\ pending # {}
  /\ Repelled(particles, mouse, canvasW, canvasH, props)

\* C30: pointer default.  A mount leaves the stored pointer at (0, 0); a
\* handled mousemove leaves it at the event's coordinate; a frame, a resize
\* and a re-run of the effect (which builds the field anew) leave it as it
\* was.  So the pointer is (0, 0) from the mount to the first mousemove and
\* the coordinate of the latest mousemove from then on.
C30_PointerDefault ==
  [][/\ last'.op = "mount" => mouse' = [x |-> 0, y |-> 0]
     /\ last'.op = "mousemove" => mouse' = last'.mouse
     /\ last'.op \in {"frame", "resize", "rerender"} => mouse' = mouse]_vars

\* C30's case: the effect has just re-run and built its field anew, after
\* a mousemove to a coordinate other than (0, 0), and the pointer is still
\* that coordinate.
C30_Witness ==
  /\ last.op = "rerender"
  /\ last.ran
  /\ Len(particles) >= 1
  /\ mouse # Origin
  /\ last.mouse = mouse

----------------------------------------------------------------------------
(* The particles createParticles makes *)

\* C29: initial particle state.  Every particle createParticles pushes is
\* on the canvas (0 <= x <= width, 0 <= y <= height), has both velocity
\* components between twice the minimum and twice the maximum of the
\* velocity range, and a size between the minimum and the maximum of the
\* size range; and every animate() leaves the array as long as it found it
\* and every particle's size as it found it.
C29_InitialState ==
  /\ EffectRan =>
       \A i \in 1..Len(last.before) :
         LET p == last.before[i]
         IN  /\ Inside(p, last.w, last.h)
             /\ 2 * VELOCITY_MIN <= p.vx /\ p.vx <= 2 * VELOCITY_MAX
             /\ 2 * VELOCITY_MIN <= p.vy /\ p.vy <= 2 * VELOCITY_MAX
             /\ PARTICLE_SIZE_MIN <= p.size /\ p.size <= PARTICLE_SIZE_MAX
  /\ last.ran =>
       /\ Len(particles) = Len(last.before)
       /\ \A i \in 1..Len(particles) : particles[i].size = last.before[i].size

\* C29's case: createParticles made two different particles, one of them
\* with a velocity component at the lower end of the scaled range, and the
\* first animate() has moved them.
C29_Witness ==
  /\ EffectRan
  /\ Len(last.before) = 2
  /\ last.before[1] # last.before[2]
  /\ last.before[1].vx = 2 * VELOCITY_MIN
  /\ particles # last.before

----------------------------------------------------------------------------
(* Re-renders *)

\* C23: a re-render with unchanged configuration keeps the simulation.  A
\* re-render of the activated component under the props of the render
\* before it, every option left at its default included, leaves the
\* particle array, the numbers of registered listeners and the pending
\* frame requests as they were.
C23_RerenderKeeps ==
  [][(last'.op = "rerender" /\ props' = props /\ active /\ active') =>
       /\ particles' = particles
       /\ resizeListeners' = resizeListeners
       /\ moveListeners' = moveListeners
       /\ pending' = pending]_vars

----------------------------------------------------------------------------
(* What a frame draws *)

\* The calls of the latest animate() with the given op.
Drawn(op) == SelectSeq(drawn, LAMBDA c : c.op = op)

\* The distance animate() measures for the pair i < j: from particle i as
\* this frame has updated it to particle j as the frame found it.
PairDistance(i, j) == Distance(last.before[j], particles[i])

\* C25: inter-particle connections.  In every frame, for every pair of
\* particles i < j there is one line from i to j if their distance, as the
\* frame measures it, is below connectionDistance and none otherwise, and
\* no line runs from a particle to itself or to an earlier one; the
\* line's opacity is 0.3 * (connectionDistance - distance) /
\* connectionDistance; and of two lines of a frame the one of the closer
\* pair is never the less opaque.
C25_Connections ==
  last.ran =>
    LET lines == Drawn("line")
        cd == props.connectionDistance
        n == Len(particles)
    IN  /\ \A k \in 1..Len(lines) :
             /\ lines[k].i \in 1..n /\ lines[k].j \in 1..n
             /\ lines[k].i < lines[k].j
             /\ lines[k].dist = PairDistance(lines[k].i, lines[k].j)
             /\ lines[k].alpha = Mul(Div(cd - lines[k].dist, cd), CONNECTION_OPACITY)
             /\ lines[k].alpha >= 0
        /\ \A i \in 1..n : \A j \in (i + 1)..n :
             Cardinality({ k \in 1..Len(lines) : lines[k].i = i /\ lines[k].j = j })
               = IF PairDistance(i, j) < cd THEN 1 ELSE 0
        /\ \A k \in 1..Len(lines) : \A l \in 1..Len(lines) :
             lines[k].dist <= lines[l].dist => lines[k].alpha >= lines[l].alpha

\* C25's case: a frame over three particles that drew two lines, the
\* closer pair's the more opaque, and none for the third pair.
C25_Witness ==
  /\ last.op = "frame"
  /\ Len(particles) = 3
  /\ Len(Drawn("line")) = 2
  /\ Drawn("line")[1].dist < Drawn("line")[2].dist
  /\ Drawn("line")[1].alpha > Drawn("line")[2].alpha

\* C26: particle opacity.  Every particle's circle is drawn with opacity
\* 0.4 + boost, where, with d the distance from the pointer to the place
\* the circle is drawn at and R the repelling radius, boost is 0 if d >= R
\* and 0.4 * (R - d) / R if d < R; the opacity lies between 0.4 and 0.8.
C26_Opacity ==
  last.ran =>
    LET circles == Drawn("circle")
        R == props.repellingRadius
    IN  \A k \in 1..Len(circles) :
          LET d == Distance([x |-> circles[k].x, y |-> circles[k].y], last.mouse)
              boost == IF d < R THEN Mul(Div(R - d, R), PROXIMITY_BOOST) ELSE 0
          IN  /\ circles[k].alpha = BASE_OPACITY + boost
              /\ BASE_OPACITY <= circles[k].alpha
              /\ circles[k].alpha <= BASE_OPACITY + PROXIMITY_BOOST

\* The distance from the pointer that the latest animate() measured for
\* particle i.
Measured(i) == PointerDistance(last.before[i], last.mouse, last.w, last.h)

\* Particle i glows in the latest frame.
Glows(i) == \E k \in 1..Len(drawn) : drawn[k].op = "glow" /\ drawn[k].i = i

\* C27: glow threshold.  A particle gets a glow circle in a frame if and
\* only if its distance from the pointer is below 80; under every
\* configuration 80 is less than the repelling radius; and a particle that
\* glows is inside the repelling radius.
C27_Glow ==
  last.ran =>
    /\ GLOW_DISTANCE < props.repellingRadius
    /\ \A i \in 1..Len(particles) :
         /\ Glows(i) <=> Measured(i) < GLOW_DISTANCE
         /\ Glows(i) => Measured(i) < props.repellingRadius

\* C28: pointer connection band.  A particle gets a line from the pointer
\* in a frame if and only if its distance from the pointer is above 50 and
\* below 120, never at 50 or less and never at 120 or more; the line runs
\* from the pointer to the particle, with opacity 0.3 * (120 - distance) /
\* 120; and of two such lines of a frame the closer particle's is never
\* the less opaque.
C28_PointerBand ==
  last.ran =>
    LET lines == Drawn("mouseline")
    IN  /\ \A i \in 1..Len(particles) :
             Cardinality({ k \in 1..Len(lines) : lines[k].i = i })
               = IF Measured(i) > MOUSE_CONNECTION_MIN /\ Measured(i) < MOUSE_CONNECTION_MAX
                 THEN 1 ELSE 0
        /\ \A k \in 1..Len(lines) :
             /\ lines[k].i \in 1..Len(particles)
             /\ lines[k].x1 = last.mouse.x /\ lines[k].y1 = last.mouse.y
             /\ lines[k].x2 = particles[lines[k].i].x
             /\ lines[k].y2 = particles[lines[k].i].y
             /\ lines[k].alpha = Mul(Div(MOUSE_CONNECTION_MAX - Measured(lines[k].i),
                                         MOUSE_CONNECTION_MAX), MOUSE_CONNECTION_OPACITY)
             /\ lines[k].alpha >= 0
        /\ \A k \in 1..Len(lines) : \A l \in 1..Len(lines) :
             Measured(lines[k].i) <= Measured(lines[l].i) => lines[k].alpha >= lines[l].alpha

\* C28's case: a frame with one particle at exactly 50 from the pointer,
\* which gets no line, one nearer than 50, which gets none either, and one
\* inside the band, which gets a line.
C28_Witness ==
  /\ last.op = "frame"
  /\ \E i \in 1..Len(particles) : Measured(i) = MOUSE_CONNECTION_MIN
  /\ \E i \in 1..Len(particles) : Measured(i) < MOUSE_CONNECTION_MIN
  /\ Len(Drawn("mouseline")) = 1
  /\ Drawn("mouseline")[1].alpha > 0

\* C24: theme sampled per frame.  Every circle, glow and line of a frame
\* is drawn in the dark colours exactly when the document root carries the
\* class 'dark' as the frame begins; and a step that changes the theme
\* (the isDark state or the class) leaves the particle array, the pointer,
\* the listeners and the pending frame requests as they were.
C24_ThemePerFrame ==
  [][/\ frames' # frames =>
          \A k \in 1..Len(drawn') :
            drawn'[k].op \in {"circle", "glow", "line", "mouseline"} =>
              drawn'[k].dark = rootDark
     /\ (isDark' # isDark \/ rootDark' # rootDark) =>
          /\ particles' = particles
          /\ mouse' = mouse
          /\ resizeListeners' = resizeListeners
          /\ moveListeners' = moveListeners
          /\ pending' = pending
          /\ animationRef' = animationRef]_vars

\* C24's case: the first frame callback after the activation drew in the
\* dark colours: the theme, light at the activation, was toggled once in
\* between.
C24_Witness ==
  /\ last.op = "frame"
  /\ frames = 2
  /\ themeLast.toggles = 1
  /\ rootDark
  /\ \E k \in 1..Len(drawn) : drawn[k].op = "circle" /\ drawn[k].dark

----------------------------------------------------------------------------
(* The typewriter's timers *)

\* C22: typewriter timer cleanup.  Once the component is unmounted, no
\* timeout of its animation effect is pending, the timeout of the pause
\* after a complete word included, and no timeout callback runs.
C22_TimerCleanup ==
  /\ [](~typeMounted => (~animationTimeout /\ pauseTimers = 0))
  /\ [][typeMounted \/ typeLast' = typeLast]_vars

====
